---- MODULE Spec2Model ----
(***************************************************************************)
(* HMAC-SHA-256 of Sweet B (sb_hmac_sha256.c).                             *)
(*                                                                         *)
(* The HMAC state is a B-byte key buffer and one embedded hash engine.     *)
(* The hash engine (the sb_sha256 calls) is an external collaborator: it   *)
(* is modelled as the spec describes it: an opaque engine whose state is   *)
(* the input it has absorbed since its last init, and whose digest is an   *)
(* opaque, injective function of that input.  The function is realised as  *)
(* a table of the inputs hashed so far (tab): the digest of an input is    *)
(* its position in the table, so equal inputs give equal digests and       *)
(* different inputs different ones.                                        *)
(*                                                                         *)
(* A byte is a triple <<id, i, v>>:                                        *)
(*   id = 0 : the concrete byte value v (i = 0);                           *)
(*   id > 0 : byte i of digest number id, XORed with the constant v.       *)
(***************************************************************************)
EXTENDS Integers, Sequences, FiniteSets, TLC

\* ------------------------------------------------------------ constants

SB_SHA256_SIZE == 32

SB_SHA256_BLOCK_SIZE == 64

ipad == 54

opad == 92

\* ------------------------------------------------------------ bounds

\* The number of distinct inputs the hash is evaluated on in one run.
MaxTab == 4

\* The number of message bytes streamed between two (re)initialisations.
MaxStream == 2

\* ------------------------------------------------------------ bytes

Min(a, b) == IF a < b THEN a ELSE b

RECURSIVE BitXor(_, _)
BitXor(a, b) ==
    IF a = 0 THEN b
    ELSE IF b = 0 THEN a
    ELSE (((a % 2) + (b % 2)) % 2) + (2 * BitXor(a \div 2, b \div 2))

Byte(v) == <<0, 0, v>>

\* v XOR pad for every byte value v, at index v + 1
XorTable(pad) == SubSeq([i \in 1..256 |-> BitXor(i - 1, pad)], 1, 256)

XorIpad == XorTable(ipad)

XorOpad == XorTable(opad)

XorByte(x, pad) ==
    <<x[1], x[2], IF pad = ipad THEN XorIpad[x[3] + 1]
                  ELSE IF pad = opad THEN XorOpad[x[3] + 1]
                  ELSE BitXor(x[3], pad)>>

\* The sequence a function on 1..n is.
Seq1(f, n) == SubSeq(f, 1, n)

Bytes(vs) == Seq1([i \in 1..Len(vs) |-> Byte(vs[i])], Len(vs))

Rep(v, n) == Seq1([i \in 1..n |-> Byte(v)], n)

\* memcpy(dst + off, src, n) on a byte sequence (off counted from 0); the
\* bytes that fall past the end of dst are not part of dst
Memcpy(buf, off, src, n) ==
    Seq1([i \in 1..Len(buf) |->
            IF i > off /\ i <= off + n THEN src[i - off] ELSE buf[i]],
         Len(buf))

\* ------------------------------------------------------------ hash engine

\* What a finalisation leaves in the engine: the engine has to be
\* initialised again before it is used, and whatever it absorbs before that
\* is hashed together with this mark.
FIN == <<-1, 0, 0>>

\* What an engine that was zeroed and never initialised starts from.
NOIV == <<-2, 0, 0>>

ZeroSha == [init |-> FALSE, hist |-> <<>>]

ShaInput(sha) == IF sha.init THEN sha.hist ELSE <<NOIV>> \o sha.hist

\* The digest number of an input: its place in the table, 0 when absent.
Lookup(t, x) ==
    IF \E n \in 1..Len(t) : t[n] = x
    THEN CHOOSE n \in 1..Len(t) : t[n] = x
    ELSE 0

Digest(id) == Seq1([i \in 1..SB_SHA256_SIZE |-> <<id, i, 0>>], SB_SHA256_SIZE)

sb_sha256_init(w) ==
    [w EXCEPT !.hmac.sha = [init |-> TRUE, hist |-> <<>>]]

sb_sha256_update(w, input, len) ==
    [w EXCEPT !.hmac.sha.hist = @ \o SubSeq(input, 1, len)]

\* The table after the engine's input has been hashed.
ShaTab(w) ==
    IF Lookup(w.tab, ShaInput(w.hmac.sha)) = 0
    THEN Append(w.tab, ShaInput(w.hmac.sha))
    ELSE w.tab

\* The digest sb_sha256_finish writes.
ShaDigest(w) == Digest(Lookup(ShaTab(w), ShaInput(w.hmac.sha)))

\* The engine and the table after sb_sha256_finish (the digest is placed by
\* the caller's destination, see the three finish variants below).
ShaFinished(w) ==
    [w EXCEPT !.tab = ShaTab(w), !.hmac.sha.hist = @ \o <<FIN>>]

\* sb_sha256_finish(&hmac->sha, output)
sb_sha256_finish_output(w) ==
    [ShaFinished(w) EXCEPT !.output = ShaDigest(w)]

\* A write of n bytes at hmac->key[off]: the bytes land in the key buffer, and
\* oob records a write that runs past its last byte.
KeyWrite(w, off, src, n) ==
    [w EXCEPT !.hmac.key = Memcpy(@, off, src, n),
              !.oob = @ \/ off + n > SB_SHA256_BLOCK_SIZE]

\* sb_sha256_finish(&hmac->sha, &hmac->key[off])
sb_sha256_finish_key(w, off) ==
    KeyWrite(ShaFinished(w), off, ShaDigest(w), SB_SHA256_SIZE)

\* ------------------------------------------------------------ HMAC

sb_hmac_sha256_key_pad(w, pad) ==
    [w EXCEPT !.hmac.key =
        Seq1([i \in 1..SB_SHA256_BLOCK_SIZE |-> XorByte(@[i], pad)],
             SB_SHA256_BLOCK_SIZE)]

\* reinit that leaves the inner pad in the key buffer
sb_hmac_sha256_reinit_padded(w) ==
    LET w1 == sb_hmac_sha256_key_pad(w, ipad)
        w2 == sb_sha256_init(w1)
    IN  sb_sha256_update(w2, w2.hmac.key, SB_SHA256_BLOCK_SIZE)

\* reinit that does not start the engine afresh
sb_hmac_sha256_reinit_no_init(w) ==
    LET w1 == sb_hmac_sha256_key_pad(w, ipad)
        w2 == sb_sha256_update(w1, w1.hmac.key, SB_SHA256_BLOCK_SIZE)
    IN  sb_hmac_sha256_key_pad(w2, ipad)

sb_hmac_sha256_reinit(w) ==
    LET w1 == sb_hmac_sha256_key_pad(w, ipad)
        w2 == sb_sha256_init(w1)
        w3 == sb_sha256_update(w2, w2.hmac.key, SB_SHA256_BLOCK_SIZE)
    IN  sb_hmac_sha256_key_pad(w3, ipad)

\* init that copies the head of a long key instead of hashing the key
sb_hmac_sha256_init_truncating(w, key, keylen) ==
    LET w0 == [w EXCEPT !.hmac = [key |-> Rep(0, SB_SHA256_BLOCK_SIZE),
                                  sha |-> ZeroSha]]
    IN  sb_hmac_sha256_reinit(
            KeyWrite(w0, 0, key, Min(keylen, SB_SHA256_BLOCK_SIZE)))

\* init that does not clear the state first
sb_hmac_sha256_init_uncleared(w, key, keylen) ==
    LET w1 == IF keylen > SB_SHA256_BLOCK_SIZE
              THEN sb_sha256_finish_key(
                       sb_sha256_update(sb_sha256_init(w), key, keylen), 0)
              ELSE KeyWrite(w, 0, key, keylen)
    IN  sb_hmac_sha256_reinit(w1)

\* init that also hashes a key of exactly the block size
sb_hmac_sha256_init_hashing_block(w, key, keylen) ==
    LET w0 == [w EXCEPT !.hmac = [key |-> Rep(0, SB_SHA256_BLOCK_SIZE),
                                  sha |-> ZeroSha]]
        w1 == IF keylen >= SB_SHA256_BLOCK_SIZE
              THEN sb_sha256_finish_key(
                       sb_sha256_update(sb_sha256_init(w0), key, keylen), 0)
              ELSE KeyWrite(w0, 0, key, keylen)
    IN  sb_hmac_sha256_reinit(w1)

sb_hmac_sha256_init(w, key, keylen) ==
    LET w0 == [w EXCEPT !.hmac = [key |-> Rep(0, SB_SHA256_BLOCK_SIZE),
                                  sha |-> ZeroSha]]
        w1 == IF keylen > SB_SHA256_BLOCK_SIZE
              THEN sb_sha256_finish_key(
                       sb_sha256_update(sb_sha256_init(w0), key, keylen), 0)
              ELSE KeyWrite(w0, 0, key, keylen)
    IN  sb_hmac_sha256_reinit(w1)

\* update that passes one byte less than it was given
sb_hmac_sha256_update_short(w, input, len) ==
    sb_sha256_update(w, input, len - 1)

sb_hmac_sha256_update(w, input, len) == sb_sha256_update(w, input, len)

\* finish that pads the outer key with ipad
sb_hmac_sha256_finish_inner_pad(w) ==
    LET w1 == sb_sha256_finish_output(w)
        w2 == sb_hmac_sha256_key_pad(w1, ipad)
        w3 == sb_sha256_init(w2)
        w4 == sb_sha256_update(w3, w3.hmac.key, SB_SHA256_BLOCK_SIZE)
        w5 == sb_sha256_update(w4, w4.output, SB_SHA256_SIZE)
        w6 == sb_sha256_finish_output(w5)
    IN  sb_hmac_sha256_key_pad(w6, ipad)

\* finish that leaves the outer pad in the key buffer
sb_hmac_sha256_finish_padded(w) ==
    LET w1 == sb_sha256_finish_output(w)
        w2 == sb_hmac_sha256_key_pad(w1, opad)
        w3 == sb_sha256_init(w2)
        w4 == sb_sha256_update(w3, w3.hmac.key, SB_SHA256_BLOCK_SIZE)
        w5 == sb_sha256_update(w4, w4.output, SB_SHA256_SIZE)
    IN  sb_sha256_finish_output(w5)

\* finish that feeds the outer hash to the engine it has just finalised
sb_hmac_sha256_finish_no_init(w) ==
    LET w1 == sb_sha256_finish_output(w)
        w2 == sb_hmac_sha256_key_pad(w1, opad)
        w4 == sb_sha256_update(w2, w2.hmac.key, SB_SHA256_BLOCK_SIZE)
        w5 == sb_sha256_update(w4, w4.output, SB_SHA256_SIZE)
        w6 == sb_sha256_finish_output(w5)
    IN  sb_hmac_sha256_key_pad(w6, opad)

sb_hmac_sha256_finish(w) ==
    LET w1 == sb_sha256_finish_output(w)
        w2 == sb_hmac_sha256_key_pad(w1, opad)
        w3 == sb_sha256_init(w2)
        w4 == sb_sha256_update(w3, w3.hmac.key, SB_SHA256_BLOCK_SIZE)
        w5 == sb_sha256_update(w4, w4.output, SB_SHA256_SIZE)
        w6 == sb_sha256_finish_output(w5)
    IN  sb_hmac_sha256_key_pad(w6, opad)

\* finish_to_key that feeds the padded first half twice
sb_hmac_sha256_finish_to_key_no_fill(w) ==
    LET w1 == sb_hmac_sha256_key_pad(w, opad)
        w2 == sb_sha256_finish_key(w1, SB_SHA256_SIZE)
        w3 == sb_sha256_init(w2)
        w4 == sb_sha256_update(w3, w3.hmac.key, SB_SHA256_SIZE)
        w6 == sb_sha256_update(w4, w4.hmac.key, SB_SHA256_SIZE)
        w7 == sb_sha256_update(w6,
                  SubSeq(w6.hmac.key, SB_SHA256_SIZE + 1, SB_SHA256_BLOCK_SIZE),
                  SB_SHA256_SIZE)
        w8 == sb_sha256_finish_key(w7, 0)
        w9 == KeyWrite(w8, SB_SHA256_SIZE, Rep(0, SB_SHA256_SIZE),
                       SB_SHA256_SIZE)
    IN  sb_hmac_sha256_reinit(w9)

\* finish_to_key that leaves the inner digest in the second half
sb_hmac_sha256_finish_to_key_no_clear(w) ==
    LET w1 == sb_hmac_sha256_key_pad(w, opad)
        w2 == sb_sha256_finish_key(w1, SB_SHA256_SIZE)
        w3 == sb_sha256_init(w2)
        w4 == sb_sha256_update(w3, w3.hmac.key, SB_SHA256_SIZE)
        w5 == KeyWrite(w4, 0, Rep(opad, SB_SHA256_SIZE), SB_SHA256_SIZE)
        w6 == sb_sha256_update(w5, w5.hmac.key, SB_SHA256_SIZE)
        w7 == sb_sha256_update(w6,
                  SubSeq(w6.hmac.key, SB_SHA256_SIZE + 1, SB_SHA256_BLOCK_SIZE),
                  SB_SHA256_SIZE)
        w8 == sb_sha256_finish_key(w7, 0)
    IN  sb_hmac_sha256_reinit(w8)

\* finish_to_key that fills the first half with zeros, not with the outer pad
sb_hmac_sha256_finish_to_key_fill_zero(w) ==
    LET w1 == sb_hmac_sha256_key_pad(w, opad)
        w2 == sb_sha256_finish_key(w1, SB_SHA256_SIZE)
        w3 == sb_sha256_init(w2)
        w4 == sb_sha256_update(w3, w3.hmac.key, SB_SHA256_SIZE)
        w5 == KeyWrite(w4, 0, Rep(0, SB_SHA256_SIZE), SB_SHA256_SIZE)
        w6 == sb_sha256_update(w5, w5.hmac.key, SB_SHA256_SIZE)
        w7 == sb_sha256_update(w6,
                  SubSeq(w6.hmac.key, SB_SHA256_SIZE + 1, SB_SHA256_BLOCK_SIZE),
                  SB_SHA256_SIZE)
        w8 == sb_sha256_finish_key(w7, 0)
        w9 == KeyWrite(w8, SB_SHA256_SIZE, Rep(0, SB_SHA256_SIZE),
                       SB_SHA256_SIZE)
    IN  sb_hmac_sha256_reinit(w9)

\* finish_to_key that returns without restarting the engine
sb_hmac_sha256_finish_to_key_no_reinit(w) ==
    LET w1 == sb_hmac_sha256_key_pad(w, opad)
        w2 == sb_sha256_finish_key(w1, SB_SHA256_SIZE)
        w3 == sb_sha256_init(w2)
        w4 == sb_sha256_update(w3, w3.hmac.key, SB_SHA256_SIZE)
        w5 == KeyWrite(w4, 0, Rep(opad, SB_SHA256_SIZE), SB_SHA256_SIZE)
        w6 == sb_sha256_update(w5, w5.hmac.key, SB_SHA256_SIZE)
        w7 == sb_sha256_update(w6,
                  SubSeq(w6.hmac.key, SB_SHA256_SIZE + 1, SB_SHA256_BLOCK_SIZE),
                  SB_SHA256_SIZE)
        w8 == sb_sha256_finish_key(w7, 0)
    IN  KeyWrite(w8, SB_SHA256_SIZE, Rep(0, SB_SHA256_SIZE), SB_SHA256_SIZE)

\* finish_to_key that writes the inner digest before it pads the key
sb_hmac_sha256_finish_to_key_pad_late(w) ==
    LET w1 == sb_sha256_finish_key(w, SB_SHA256_SIZE)
        w2 == sb_hmac_sha256_key_pad(w1, opad)
        w3 == sb_sha256_init(w2)
        w4 == sb_sha256_update(w3, w3.hmac.key, SB_SHA256_SIZE)
        w5 == KeyWrite(w4, 0, Rep(opad, SB_SHA256_SIZE), SB_SHA256_SIZE)
        w6 == sb_sha256_update(w5, w5.hmac.key, SB_SHA256_SIZE)
        w7 == sb_sha256_update(w6,
                  SubSeq(w6.hmac.key, SB_SHA256_SIZE + 1, SB_SHA256_BLOCK_SIZE),
                  SB_SHA256_SIZE)
        w8 == sb_sha256_finish_key(w7, 0)
        w9 == KeyWrite(w8, SB_SHA256_SIZE, Rep(0, SB_SHA256_SIZE),
                       SB_SHA256_SIZE)
    IN  sb_hmac_sha256_reinit(w9)

sb_hmac_sha256_finish_to_key(w) ==
    LET w1 == sb_hmac_sha256_key_pad(w, opad)
        w2 == sb_sha256_finish_key(w1, SB_SHA256_SIZE)
        w3 == sb_sha256_init(w2)
        w4 == sb_sha256_update(w3, w3.hmac.key, SB_SHA256_SIZE)
        w5 == KeyWrite(w4, 0, Rep(opad, SB_SHA256_SIZE), SB_SHA256_SIZE)
        w6 == sb_sha256_update(w5, w5.hmac.key, SB_SHA256_SIZE)
        w7 == sb_sha256_update(w6,
                  SubSeq(w6.hmac.key, SB_SHA256_SIZE + 1, SB_SHA256_BLOCK_SIZE),
                  SB_SHA256_SIZE)
        w8 == sb_sha256_finish_key(w7, 0)
        w9 == KeyWrite(w8, SB_SHA256_SIZE, Rep(0, SB_SHA256_SIZE),
                       SB_SHA256_SIZE)
    IN  sb_hmac_sha256_reinit(w9)

sb_hmac_sha256(w, key, keylen, input, len) ==
    sb_hmac_sha256_finish(
        sb_hmac_sha256_update(sb_hmac_sha256_init(w, key, keylen), input, len))

\* ------------------------------------------------------------ the calls, step by step

\* The k-th statement of reinit.
ReinitStep(w, k) ==
    CASE k = 1 -> sb_hmac_sha256_key_pad(w, ipad)
      [] k = 2 -> sb_sha256_init(w)
      [] k = 3 -> sb_sha256_update(w, w.hmac.key, SB_SHA256_BLOCK_SIZE)
      [] k = 4 -> sb_hmac_sha256_key_pad(w, ipad)

\* finish whose last statement, the un-padding of the key, is missing
FinishStep_no_unpad(w, k) ==
    CASE k = 1 -> sb_sha256_finish_output(w)
      [] k = 2 -> sb_hmac_sha256_key_pad(w, opad)
      [] k = 3 -> sb_sha256_init(w)
      [] k = 4 -> sb_sha256_update(w, w.hmac.key, SB_SHA256_BLOCK_SIZE)
      [] k = 5 -> sb_sha256_update(w, w.output, SB_SHA256_SIZE)
      [] k = 6 -> sb_sha256_finish_output(w)
      [] k = 7 -> w

\* The k-th statement of finish.
FinishStep(w, k) ==
    CASE k = 1 -> sb_sha256_finish_output(w)
      [] k = 2 -> sb_hmac_sha256_key_pad(w, opad)
      [] k = 3 -> sb_sha256_init(w)
      [] k = 4 -> sb_sha256_update(w, w.hmac.key, SB_SHA256_BLOCK_SIZE)
      [] k = 5 -> sb_sha256_update(w, w.output, SB_SHA256_SIZE)
      [] k = 6 -> sb_sha256_finish_output(w)
      [] k = 7 -> sb_hmac_sha256_key_pad(w, opad)

\* The k-th statement of finish_to_key, those of the reinit it ends with
\* counted as its own.
FinishToKeyStep(w, k) ==
    CASE k = 1 -> sb_hmac_sha256_key_pad(w, opad)
      [] k = 2 -> sb_sha256_finish_key(w, SB_SHA256_SIZE)
      [] k = 3 -> sb_sha256_init(w)
      [] k = 4 -> sb_sha256_update(w, w.hmac.key, SB_SHA256_SIZE)
      [] k = 5 -> KeyWrite(w, 0, Rep(opad, SB_SHA256_SIZE), SB_SHA256_SIZE)
      [] k = 6 -> sb_sha256_update(w, w.hmac.key, SB_SHA256_SIZE)
      [] k = 7 -> sb_sha256_update(w,
                      SubSeq(w.hmac.key, SB_SHA256_SIZE + 1, SB_SHA256_BLOCK_SIZE),
                      SB_SHA256_SIZE)
      [] k = 8 -> sb_sha256_finish_key(w, 0)
      [] k = 9 -> KeyWrite(w, SB_SHA256_SIZE, Rep(0, SB_SHA256_SIZE),
                           SB_SHA256_SIZE)
      [] k > 9 -> ReinitStep(w, k - 9)

\* The number of statements of a call, and its k-th statement.
OpSteps(op) == IF op = "finish" THEN 7 ELSE 9 + 4

OpStep(op, w, k) ==
    IF op = "finish" THEN FinishStep(w, k) ELSE FinishToKeyStep(w, k)

\* The whole call.
OpCall(op, w) ==
    IF op = "finish" THEN sb_hmac_sha256_finish(w)
    ELSE sb_hmac_sha256_finish_to_key(w)

\* ------------------------------------------------------------ reference

\* HMAC as RFC 2104 writes it, on separate values: nothing here shares a
\* buffer, and the hash is looked up in the table of the inputs hashed.

XorAll(s, pad) == Seq1([i \in 1..Len(s) |-> XorByte(s[i], pad)], Len(s))

ZeroExtend(s) == s \o Rep(0, SB_SHA256_BLOCK_SIZE - Len(s))

RefHash(t, x) == Digest(Lookup(t, x))

RefK0(t, K) ==
    IF Len(K) > SB_SHA256_BLOCK_SIZE
    THEN ZeroExtend(RefHash(t, K))
    ELSE ZeroExtend(K)

RefOuter(t, K0, inner) == RefHash(t, XorAll(K0, opad) \o inner)

RefHMAC(t, K0, M) == RefOuter(t, K0, RefHash(t, XorAll(K0, ipad) \o M))

\* A digest the table holds (the digest of an input that was never hashed
\* is Digest(0), which no engine writes).
IsDigest(t, d) == \E n \in 1..Len(t) : d = Digest(n)

UpperZero(key) ==
    \A i \in SB_SHA256_SIZE + 1..SB_SHA256_BLOCK_SIZE : key[i] = Byte(0)

\* ------------------------------------------------------------ inputs

\* Keys of every kind of length: empty, short, exactly D, between D and B,
\* exactly B, and longer than B.
Keys ==
    { <<>>,
      Bytes(<<74, 101, 102, 101>>),
      Rep(11, SB_SHA256_SIZE),
      Rep(12, SB_SHA256_SIZE + 1),
      Rep(170, SB_SHA256_BLOCK_SIZE),
      Rep(170, SB_SHA256_BLOCK_SIZE + 1) }

\* The text the messages are taken from: a message is its first n bytes,
\* n <= MaxStream, and is streamed in chunks of any lengths.
Text == Bytes(<<72, 105, 32, 84, 104, 101, 114, 101>>)

Messages == { SubSeq(Text, 1, n) : n \in 0..MaxStream }

\* ------------------------------------------------------------ state

VARIABLES
    hmac,    \* the sb_hmac_sha256_state_t: [key, sha]
    output,  \* the caller's output buffer
    tab,     \* the inputs the hash has been evaluated on
    oob,     \* a write ran past the end of the key buffer
    gh,      \* history of the calls made (read by the properties only)
    race     \* two callers at once: their calls, how far each has got, the
             \* second caller's output buffer and (when it has its own) object

vars == <<hmac, output, tab, oob, gh, race>>

W == [hmac |-> hmac, output |-> output, tab |-> tab, oob |-> oob]

Becomes(w) ==
    /\ hmac' = w.hmac
    /\ output' = w.output
    /\ tab' = w.tab
    /\ oob' = w.oob
    /\ race' = race

NoMac == [set |-> FALSE, msg |-> <<>>, out |-> <<>>]

\* phase:
\*   "none"        init was never called
\*   "streaming"   the engine was started by init, reinit or finish_to_key
\*                 and has absorbed the key block and streamed
\*   "finished"    finish was called in phase streaming; streamed is still
\*                 the message of that MAC
\*   "restreaming" update was called after a finish with no reinit between;
\*                 streamed is what was given to update since that finish
\*   "refinished"  finish was called in phase finished or restreaming
\* path: "i" after init, "iu" after init; update, "iuf" after init; update;
\*   finish, "other" after anything else
Gh0 ==
    [ inited   |-> FALSE,  \* init (or the one-shot hmac) has been called
      valid    |-> FALSE,  \* ... and no finish_to_key since met a non-zero upper half
      lastOp   |-> "none",
      phase    |-> "none",
      path     |-> "other",
      gkey     |-> <<>>,   \* the key given to init
      lkey     |-> <<>>,   \* the logical key, zero-extended (by the reference)
      klen     |-> 0,      \* its length
      gen      |-> 0,      \* finish_to_key calls since init (0, 1, 2 = more)
      streamed |-> <<>>,   \* see phase
      impl     |-> FALSE,  \* it was finish_to_key that started the engine
      refin    |-> FALSE,  \* it was reinit, called after a finish, that started the engine
      nupd     |-> 0,      \* update calls since the engine was started (0, 1, 2 = more)
      mac1     |-> NoMac,  \* the first MAC produced under the current key
      rounds   |-> 0,      \* later finishes of mac1's message under that key (0, 1, 2 = more)
      pkey     |-> <<>>,   \* at the last finish_to_key: the logical key before it,
      pklen    |-> 0,      \*    its length,
      kmsg     |-> <<>>,   \*    the bytes streamed,
      kclean   |-> FALSE,  \*    and whether the phase was streaming
      rot      |-> FALSE,  \* init took a D-byte key; only update and finish_to_key since
      msgs     |-> <<>>,   \* ... and the messages finish_to_key closed, in order
      rmid     |-> FALSE ] \* the last call was reinit, made with bytes streamed

\* The history after init(K), w being the state init left.
GhInit(w, K) ==
    [ Gh0 EXCEPT
        !.inited = TRUE, !.valid = TRUE, !.lastOp = "init",
        !.phase = "streaming", !.path = "i",
        !.gkey = K, !.lkey = RefK0(w.tab, K),
        !.klen = IF Len(K) > SB_SHA256_BLOCK_SIZE THEN SB_SHA256_SIZE ELSE Len(K),
        !.rot = (Len(K) = SB_SHA256_SIZE) ]

GhReinit(g) ==
    [ g EXCEPT !.lastOp = "reinit", !.phase = "streaming", !.path = "other",
               !.streamed = <<>>, !.impl = FALSE, !.nupd = 0,
               !.refin = g.phase \in {"finished", "refinished"},
               !.rot = FALSE, !.msgs = <<>>,
               !.rmid = (g.phase \in {"streaming", "restreaming"}
                            /\ g.streamed # <<>>) ]

GhUpdate(g, chunk) ==
    IF g.phase = "streaming"
    THEN [ g EXCEPT !.lastOp = "update", !.streamed = @ \o chunk,
                    !.rmid = FALSE,
                    !.path = IF @ = "i" THEN "iu" ELSE "other",
                    !.nupd = Min(@ + 1, 2) ]
    ELSE [ g EXCEPT !.lastOp = "update", !.phase = "restreaming",
                    !.rmid = FALSE,
                    !.path = "other",
                    !.streamed = IF g.phase = "restreaming" THEN @ \o chunk ELSE chunk,
                    !.nupd = IF g.phase = "restreaming" THEN Min(@ + 1, 2) ELSE 1 ]

\* The history after finish, w being the state finish left.
GhFinish(g, w) ==
    IF g.phase = "streaming"
    THEN [ g EXCEPT
            !.lastOp = "finish", !.phase = "finished",
            !.rot = FALSE, !.msgs = <<>>, !.rmid = FALSE,
            !.path = IF @ = "iu" THEN "iuf" ELSE "other",
            !.mac1 = IF g.mac1.set THEN @
                     ELSE [set |-> TRUE, msg |-> g.streamed, out |-> w.output],
            !.rounds = IF g.mac1.set /\ g.mac1.msg = g.streamed
                       THEN Min(@ + 1, 2) ELSE @ ]
    ELSE [ g EXCEPT
            !.lastOp = "finish", !.phase = "refinished", !.path = "other",
            !.rot = FALSE, !.msgs = <<>>, !.rmid = FALSE,
            !.streamed = IF g.phase = "restreaming" THEN @ ELSE <<>>,
            !.nupd = IF g.phase = "restreaming" THEN @ ELSE 0 ]

\* The history after finish_to_key called in state w0, w being the state it
\* left.  The new logical key is the outer hash of the old one and of the
\* digest of what the engine held, by the reference.
GhFinishToKey(g, w0, w) ==
    LET inner == IF g.phase = "streaming"
                 THEN XorAll(g.lkey, ipad) \o g.streamed
                 ELSE ShaInput(w0.hmac.sha)
    IN  [ g EXCEPT
            !.lastOp = "finish_to_key", !.phase = "streaming", !.path = "other",
            !.valid = @ /\ UpperZero(w0.hmac.key),
            !.lkey = ZeroExtend(RefOuter(w.tab, g.lkey, RefHash(w.tab, inner))),
            !.klen = SB_SHA256_SIZE,
            !.gen = Min(@ + 1, 2),
            !.streamed = <<>>, !.impl = TRUE, !.refin = FALSE, !.nupd = 0,
            !.mac1 = NoMac, !.rounds = 0,
            !.pkey = g.lkey, !.pklen = g.klen, !.kmsg = g.streamed,
            !.kclean = (g.phase = "streaming"),
            !.msgs = IF g.rot THEN Append(@, g.streamed) ELSE <<>>,
            !.rmid = FALSE ]

\* The history after the one-shot hmac(K, M), w being the state it left.
GhHmac(w, K, M) ==
    [ GhFinish(GhUpdate(GhInit(w, K), M), w) EXCEPT !.lastOp = "hmac" ]

\* ------------------------------------------------------------ operations

\* An object that was not initialised holds whatever its memory held: all
\* zero, a longer key with an engine in mid-stream, a pad-mixed buffer with
\* a finalised engine, or bytes that were never an HMAC state.
Garbage ==
    { [key |-> Rep(0, SB_SHA256_BLOCK_SIZE), sha |-> ZeroSha],
      [key |-> Rep(170, SB_SHA256_BLOCK_SIZE),
       sha |-> [init |-> TRUE,
                hist |-> Rep(BitXor(170, ipad), SB_SHA256_BLOCK_SIZE) \o Bytes(<<72>>)]],
      [key |-> XorAll(ZeroExtend(Rep(11, SB_SHA256_SIZE)), opad),
       sha |-> [init |-> TRUE, hist |-> Bytes(<<1, 2, 3>>) \o <<FIN>>]],
      [key |-> Rep(255, SB_SHA256_BLOCK_SIZE),
       sha |-> [init |-> FALSE, hist |-> Bytes(<<7>>)]] }

\* No second caller.
RaceIdle ==
    [ on     |-> FALSE,
      shared |-> FALSE,                 \* both callers use the object hmac
      op     |-> <<"finish", "finish">>,
      pc     |-> <<0, 0>>,              \* statements each caller has executed
      hmac2  |-> [key |-> Rep(0, SB_SHA256_BLOCK_SIZE), sha |-> ZeroSha],
      out2   |-> Rep(0, SB_SHA256_SIZE),
      start  |-> << [key |-> Rep(0, SB_SHA256_BLOCK_SIZE), sha |-> ZeroSha],
                    [key |-> Rep(0, SB_SHA256_BLOCK_SIZE), sha |-> ZeroSha] >>,
      key    |-> << <<>>, <<>> >>,      \* the objects' keys and
      msg    |-> << <<>>, <<>> >> ]     \*    the messages streamed to them

\* A run follows one object from the memory it is made of through the one
\* key session that init (or the one-shot hmac) opens on it.
Init ==
    /\ hmac \in Garbage
    /\ output = Rep(0, SB_SHA256_SIZE)
    /\ tab = <<>>
    /\ oob = FALSE
    /\ gh = Gh0
    /\ race = RaceIdle

DoInit(K) ==
    /\ ~gh.inited
    /\ \E w \in {sb_hmac_sha256_init(W, K, Len(K))} :
        /\ Len(w.tab) <= MaxTab
        /\ Becomes(w)
        /\ gh' = GhInit(w, K)

DoReinit ==
    /\ gh.inited
    /\ Becomes(sb_hmac_sha256_reinit(W))
    /\ gh' = GhReinit(gh)

DoUpdate(n) ==
    /\ gh.inited
    /\ Len(gh.streamed) + n <= MaxStream
    /\ \E chunk \in {SubSeq(Text, Len(gh.streamed) + 1, Len(gh.streamed) + n)} :
        /\ Becomes(sb_hmac_sha256_update(W, chunk, n))
        /\ gh' = GhUpdate(gh, chunk)

DoFinish ==
    /\ gh.inited
    /\ \E w \in {sb_hmac_sha256_finish(W)} :
        /\ Len(w.tab) <= MaxTab
        /\ Becomes(w)
        /\ gh' = GhFinish(gh, w)

DoFinishToKey ==
    /\ gh.inited
    /\ \E w \in {sb_hmac_sha256_finish_to_key(W)} :
        /\ Len(w.tab) <= MaxTab
        /\ Becomes(w)
        /\ gh' = GhFinishToKey(gh, W, w)

DoHmac(K, M) ==
    /\ ~gh.inited
    /\ \E w \in {sb_hmac_sha256(W, K, Len(K), M, Len(M))} :
        /\ Len(w.tab) <= MaxTab
        /\ Becomes(w)
        /\ gh' = GhHmac(w, K, M)

Next ==
    \/ \E K \in Keys : DoInit(K)
    \/ DoReinit
    \/ \E n \in 0..MaxStream : DoUpdate(n)
    \/ DoFinish
    \/ DoFinishToKey
    \/ \E K \in Keys, M \in Messages : DoHmac(K, M)

Spec == Init /\ [][Next]_vars

\* ------------------------------------------------------------ two callers

\* The object init(K); update(M) leave.
RaceObject(K, M) ==
    sb_hmac_sha256_update(
        sb_hmac_sha256_init(
            [hmac |-> [key |-> Rep(0, SB_SHA256_BLOCK_SIZE), sha |-> ZeroSha],
             output |-> Rep(0, SB_SHA256_SIZE), tab |-> <<>>, oob |-> FALSE],
            K, Len(K)),
        M, Len(M)).hmac

RaceKeys == { Rep(11, SB_SHA256_SIZE), Bytes(<<74, 101, 102, 101>>) }

\* Two callers are about to call finish and finish or finish_to_key, with
\* output buffers of their own, on one object in mid-stream or on one such
\* object each.
InitRace ==
    /\ output = Rep(0, SB_SHA256_SIZE)
    /\ tab = <<>>
    /\ oob = FALSE
    /\ gh = Gh0
    /\ \E sh \in BOOLEAN, op2 \in {"finish", "finish_to_key"},
          K1 \in {Rep(11, SB_SHA256_SIZE)}, K2 \in RaceKeys,
          M1 \in Messages, M2 \in Messages :
        /\ sh => (K2 = K1 /\ M2 = M1)
        /\ hmac = RaceObject(K1, M1)
        /\ race = [ on     |-> TRUE,
                    shared |-> sh,
                    op     |-> <<"finish", op2>>,
                    pc     |-> <<0, 0>>,
                    hmac2  |-> RaceObject(K2, M2),
                    out2   |-> Rep(0, SB_SHA256_SIZE),
                    start  |-> <<RaceObject(K1, M1), RaceObject(K2, M2)>>,
                    key    |-> <<K1, K2>>,
                    msg    |-> <<M1, M2>> ]

\* What caller c's call works on.
RaceW(c) ==
    [ hmac   |-> IF c = 1 \/ race.shared THEN hmac ELSE race.hmac2,
      output |-> IF c = 1 THEN output ELSE race.out2,
      tab    |-> tab,
      oob    |-> oob ]

\* Caller c executes the next statement of its call.
RaceStep(c) ==
    /\ race.on
    /\ race.pc[c] < OpSteps(race.op[c])
    /\ \E w \in {OpStep(race.op[c], RaceW(c), race.pc[c] + 1)} :
        /\ tab' = w.tab
        /\ oob' = w.oob
        /\ hmac' = IF c = 1 \/ race.shared THEN w.hmac ELSE hmac
        /\ output' = IF c = 1 THEN w.output ELSE output
        /\ race' = [ race EXCEPT
                       !.pc[c] = @ + 1,
                       !.hmac2 = IF c = 2 /\ ~race.shared THEN w.hmac ELSE @,
                       !.out2 = IF c = 2 THEN w.output ELSE @ ]
    /\ gh' = gh

FirstCallerSteps == RaceStep(1)

SecondCallerSteps == RaceStep(2)

NextRace ==
    \/ FirstCallerSteps
    \/ SecondCallerSteps

SpecRace == InitRace /\ [][NextRace]_vars

\* ------------------------------------------------------------ properties

Started == [init |-> TRUE, hist |-> XorAll(hmac.key, ipad)]

\* C1: init(K); update(M); finish writes H((K0 xor opad) || H((K0 xor ipad)
\* || M)) to the output, K0 being K zero-extended to the block size when K
\* is no longer than a block and H(K) zero-extended when it is longer.
C1_FinishIsHmac ==
    gh.path = "iuf" =>
        /\ output = RefHMAC(tab, RefK0(tab, gh.gkey), gh.streamed)
        /\ IsDigest(tab, output)

C1_Witness ==
    /\ gh.path = "iuf"
    /\ gh.lastOp = "finish"
    /\ Len(gh.gkey) > SB_SHA256_BLOCK_SIZE
    /\ Len(gh.streamed) = MaxStream

\* C2: whatever chunks the message is streamed in, empty ones included, the
\* MAC and the key buffer that finish leaves are those of init; update(M);
\* finish with the whole message M in one update.
C2_ChunkIndependence ==
    (gh.lastOp = "finish" /\ gh.phase = "finished" /\ gh.gen = 0) =>
        \E r \in {sb_hmac_sha256(W, gh.gkey, Len(gh.gkey),
                                 gh.streamed, Len(gh.streamed))} :
            /\ output = r.output
            /\ hmac.key = r.hmac.key

C2_Witness ==
    /\ gh.lastOp = "finish"
    /\ gh.phase = "finished"
    /\ gh.gen = 0
    /\ gh.path = "other"
    /\ ~gh.refin
    /\ gh.nupd = 2
    /\ Len(gh.streamed) >= 2

\* C3: for a key K longer than a block, the one-shot hmac(K, M) is the
\* one-shot hmac(hash(K), M), hash(K) given as an ordinary key of D bytes.
C3_LongKeyEquivalence ==
    (gh.lastOp = "hmac" /\ Len(gh.gkey) > SB_SHA256_BLOCK_SIZE) =>
        \E r \in {sb_hmac_sha256(W, RefHash(tab, gh.gkey), SB_SHA256_SIZE,
                                 gh.streamed, Len(gh.streamed))} :
            /\ output = r.output
            /\ IsDigest(tab, output)

C3_Witness ==
    /\ gh.lastOp = "hmac"
    /\ Len(gh.gkey) > SB_SHA256_BLOCK_SIZE
    /\ Len(gh.streamed) > 0

\* The key of D bytes that the last finish_to_key collapsed: the key given
\* to init, or the key an earlier finish_to_key produced.
CollapsedKey ==
    IF gh.gen = 1 THEN gh.gkey ELSE SubSeq(gh.pkey, 1, SB_SHA256_SIZE)

CollapsedDKey ==
    /\ gh.lastOp = "finish_to_key"
    /\ gh.valid
    /\ gh.kclean
    /\ gh.pklen = SB_SHA256_SIZE
    /\ Len(CollapsedKey) = SB_SHA256_SIZE

\* C4: for a key K of D bytes and the message M streamed since init or
\* reinit, finish_to_key leaves in the first D bytes of the key buffer
\* H((K||0^D xor opad) || H((K||0^D xor ipad) || M)), the MAC as the
\* reference with separate buffers computes it.
C4_CollapseIsHmac ==
    CollapsedDKey =>
        /\ SubSeq(hmac.key, 1, SB_SHA256_SIZE) =
              RefHMAC(tab, CollapsedKey \o Rep(0, SB_SHA256_SIZE), gh.kmsg)
        /\ IsDigest(tab, SubSeq(hmac.key, 1, SB_SHA256_SIZE))

C4_Witness ==
    /\ CollapsedDKey
    /\ gh.gen = 1
    /\ Len(gh.kmsg) > 0

\* The key finish_to_key produced, by the reference.
NewKey == RefHMAC(tab, gh.pkey, gh.kmsg)

AfterCollapse ==
    /\ gh.valid
    /\ gh.kclean
    /\ gh.pklen = SB_SHA256_SIZE
    /\ gh.gen >= 1

\* C5: when finish_to_key returns (key of D bytes, streaming phase) the key
\* buffer is new_key || 0^D and the engine holds exactly the inner-padded
\* block of the new key, so that update(M2); finish, with no reinit, yields
\* HMAC(new_key, M2).
C5_CollapseRestarts ==
    /\ (AfterCollapse /\ gh.lastOp = "finish_to_key") =>
          /\ hmac.key = NewKey \o Rep(0, SB_SHA256_SIZE)
          /\ IsDigest(tab, NewKey)
          /\ hmac.sha = [init |-> TRUE,
                         hist |-> XorAll(NewKey \o Rep(0, SB_SHA256_SIZE), ipad)]
    /\ (AfterCollapse /\ gh.lastOp = "finish" /\ gh.phase = "finished" /\ gh.impl) =>
          /\ output = RefHMAC(tab, NewKey \o Rep(0, SB_SHA256_SIZE), gh.streamed)
          /\ IsDigest(tab, output)

C5_Witness ==
    /\ AfterCollapse
    /\ gh.lastOp = "finish"
    /\ gh.phase = "finished"
    /\ gh.impl
    /\ gh.nupd >= 1
    /\ Len(gh.streamed) > 0

\* C6: once finish has produced the MAC of a message M, every later round
\* reinit; update(M); finish under the same key produces that MAC again.
C6_ReinitRoundTrip ==
    (gh.lastOp = "finish" /\ gh.phase = "finished" /\ gh.mac1.set
        /\ gh.mac1.msg = gh.streamed) =>
        /\ output = gh.mac1.out
        /\ IsDigest(tab, output)

C6_Witness ==
    /\ gh.lastOp = "finish"
    /\ gh.phase = "finished"
    /\ gh.rounds = 2
    /\ gh.refin
    /\ Len(gh.streamed) > 0

\* C7: between public operations, after init and any reinit, update and
\* finish, and finish_to_key called with a zero upper half, the key buffer
\* is the logical key zero-extended to the block size; a pad toggle changes
\* the buffer and the same toggle applied again restores it, so pad-mixed
\* bytes are in the buffer only inside an operation.
C7_BufferHygiene ==
    (gh.inited /\ gh.valid) =>
        /\ hmac.key = gh.lkey
        /\ \A pad \in {ipad, opad} :
              /\ sb_hmac_sha256_key_pad(W, pad).hmac.key # hmac.key
              /\ sb_hmac_sha256_key_pad(sb_hmac_sha256_key_pad(W, pad), pad).hmac.key
                    = hmac.key

C7_Witness ==
    /\ gh.inited
    /\ gh.valid
    /\ gh.gen >= 1
    /\ gh.lastOp = "finish"
    /\ gh.rounds >= 1

\* C8 as it was claimed: finish leaves the object as init and reinit do, the
\* engine holding exactly the inner-padded key block, so that update(M);
\* finish with no reinit between yields HMAC(K, M).
C8_FinishRestoresStreaming ==
    /\ (gh.valid /\ gh.lastOp = "finish") => hmac.sha = Started
    /\ (gh.valid /\ gh.lastOp = "finish" /\ gh.phase = "refinished") =>
          output = RefHMAC(tab, gh.lkey, gh.streamed)

\* C8, amended: finish restores the key buffer to the unpadded key and
\* leaves the engine finalised over the outer-hash input (the outer-padded
\* key block, then the inner digest), not started over the inner-padded key
\* block; update(M); finish yields HMAC(K, M) once reinit has been called
\* after the finish.
C8_FinishRestoresKeyOnly ==
    /\ (gh.valid /\ gh.lastOp = "finish") => hmac.key = gh.lkey
    /\ (gh.valid /\ gh.lastOp = "finish" /\ gh.phase = "finished") =>
          hmac.sha = [init |-> TRUE,
                      hist |-> XorAll(gh.lkey, opad)
                               \o RefHash(tab, XorAll(gh.lkey, ipad) \o gh.streamed)
                               \o <<FIN>>]
    /\ (gh.valid /\ gh.lastOp = "finish" /\ gh.phase = "finished" /\ gh.refin) =>
          output = RefHMAC(tab, gh.lkey, gh.streamed)

C8_Witness ==
    /\ gh.valid
    /\ gh.lastOp = "finish"
    /\ gh.phase = "finished"
    /\ gh.refin
    /\ gh.nupd >= 1

\* What an object may hold when the one-shot hmac is called on it: the
\* contents of uninitialised memory, and the state the call itself left.
Priors == Garbage \cup {hmac}

\* C9: the one-shot hmac(key, message) leaves the output and the state that
\* init(key); update(message); finish leave, whatever the object held
\* before: the same from every prior content.
C9_OneShotIgnoresPrior ==
    gh.lastOp = "hmac" =>
        \A h \in Priors :
            \E r \in {sb_hmac_sha256_finish(
                          sb_hmac_sha256_update(
                              sb_hmac_sha256_init([W EXCEPT !.hmac = h],
                                                  gh.gkey, Len(gh.gkey)),
                              gh.streamed, Len(gh.streamed)))} :
                /\ r.output = output
                /\ r.hmac = hmac

C9_Witness ==
    /\ gh.lastOp = "hmac"
    /\ Len(gh.gkey) > 0
    /\ Len(gh.gkey) < SB_SHA256_SIZE
    /\ Len(gh.streamed) > 0

\* C10: after init(K) the key buffer is K followed by zeros when K has at
\* most B bytes (B exactly included, the empty key too) and H(K) followed by
\* zeros when it has more; no write ever runs past the buffer.
C10_KeyPreparation ==
    /\ ~oob
    /\ gh.lastOp = "init" =>
          /\ Len(gh.gkey) <= SB_SHA256_BLOCK_SIZE =>
                hmac.key = gh.gkey \o Rep(0, SB_SHA256_BLOCK_SIZE - Len(gh.gkey))
          /\ Len(gh.gkey) > SB_SHA256_BLOCK_SIZE =>
                /\ hmac.key = RefHash(tab, gh.gkey)
                                \o Rep(0, SB_SHA256_BLOCK_SIZE - SB_SHA256_SIZE)
                /\ Lookup(tab, gh.gkey) > 0

C10_Witness ==
    /\ gh.lastOp = "init"
    /\ Len(gh.gkey) = SB_SHA256_BLOCK_SIZE

\* The first finish_to_key of the session was called in streaming phase on
\* a key of more than D and at most B bytes with a non-zero byte past the
\* first D.
CollapsedWideKey ==
    /\ gh.lastOp = "finish_to_key"
    /\ gh.gen = 1
    /\ gh.kclean
    /\ Len(gh.gkey) > SB_SHA256_SIZE
    /\ Len(gh.gkey) <= SB_SHA256_BLOCK_SIZE
    /\ \E i \in SB_SHA256_SIZE + 1..Len(gh.gkey) : gh.gkey[i] # Byte(0)

\* What the outer hash of that call absorbed, by the reference: the first D
\* key bytes outer-padded, D bytes of plain outer pad, the inner digest.
WideOuterInput ==
    XorAll(SubSeq(gh.gkey, 1, SB_SHA256_SIZE), opad)
        \o Rep(opad, SB_SHA256_SIZE)
        \o RefHash(tab, XorAll(ZeroExtend(gh.gkey), ipad) \o gh.kmsg)

\* C11: on a key whose upper half is not zero, finish_to_key returns like
\* any other call (an object in streaming phase, nothing flagged), the new
\* key is H((K[0..D) xor opad) || opad^D || inner digest), which is not
\* HMAC(K, M) as the hash is injective, and the key bytes past the first D
\* are gone from the buffer.
C11_WideKeyCollapse ==
    CollapsedWideKey =>
        /\ ~gh.valid
        /\ hmac.sha = Started
        /\ SubSeq(hmac.key, 1, SB_SHA256_SIZE) = RefHash(tab, WideOuterInput)
        /\ IsDigest(tab, SubSeq(hmac.key, 1, SB_SHA256_SIZE))
        /\ WideOuterInput #
              XorAll(ZeroExtend(gh.gkey), opad)
                \o RefHash(tab, XorAll(ZeroExtend(gh.gkey), ipad) \o gh.kmsg)
        /\ SubSeq(hmac.key, 1, SB_SHA256_SIZE)
              # RefHMAC(tab, ZeroExtend(gh.gkey), gh.kmsg)
        /\ UpperZero(hmac.key)

C11_Witness ==
    /\ CollapsedWideKey
    /\ Len(gh.gkey) = SB_SHA256_SIZE + 1
    /\ Len(gh.kmsg) > 0

\* The key that a chain of rounds leaves, by the reference: each round
\* replaces the key by the MAC of the round's message under it.
RECURSIVE ChainKey(_, _, _)
ChainKey(t, K, ms) ==
    IF ms = <<>> THEN K
    ELSE ChainKey(t, RefHMAC(t, ZeroExtend(K), Head(ms)), Tail(ms))

\* C12: from init with a D-byte key K_0, through any number of rounds of
\* updates (in any chunks) closed by finish_to_key, the key buffer is
\* K_n || 0^D with K_i = HMAC(K_(i-1), M_i), and at every point between the
\* calls the upper half of the buffer is zero and the engine is in
\* streaming phase on the buffer's key: the next round starts from the
\* state finish_to_key requires.
C12_RotationChain ==
    gh.rot =>
        /\ hmac.key = ZeroExtend(ChainKey(tab, gh.gkey, gh.msgs))
        /\ UpperZero(hmac.key)
        /\ hmac.sha = [init |-> TRUE,
                       hist |-> XorAll(hmac.key, ipad) \o gh.streamed]
        /\ gh.phase = "streaming"
        /\ gh.valid
        /\ ~oob

C12_Witness ==
    /\ gh.rot
    /\ gh.lastOp = "finish_to_key"
    /\ Len(gh.msgs) = 2
    /\ Len(gh.msgs[1]) = 1
    /\ Len(gh.msgs[2]) = MaxStream

\* The step was a reinit call.
ReinitCalled == gh'.lastOp = "reinit"

\* The step was a finish call that closed a stream opened by a reinit which
\* had been called right after a finish.
FinishAfterReinit ==
    /\ gh'.lastOp = "finish"
    /\ gh'.phase = "finished"
    /\ gh.refin

\* The state update(M); finish leaves when called on the object the step
\* leaves.
MacNext(M) ==
    LET w1 == [hmac |-> hmac', output |-> output', tab |-> tab', oob |-> oob']
    IN  sb_hmac_sha256_finish(sb_hmac_sha256_update(w1, M, Len(M)))

\* C13: reinit, called in any phase, leaves the key buffer byte for byte as
\* it was and the engine as a fresh one that absorbed the B-byte
\* inner-padded key and nothing else, which is the object init leaves for
\* that key; it writes nothing else.  The MAC of the stream that follows is
\* the HMAC of the bytes given after the reinit: what was streamed or
\* finalised before it has no part in it.
C13_ReinitResets ==
    [][ /\ ReinitCalled =>
            /\ hmac'.key = hmac.key
            /\ hmac'.sha = [init |-> TRUE, hist |-> XorAll(hmac.key, ipad)]
            /\ hmac' = sb_hmac_sha256_init(W, SubSeq(hmac.key, 1, gh.klen),
                                           gh.klen).hmac
            /\ output' = output
            /\ tab' = tab
            /\ oob' = oob
            /\ \A M \in Messages : \A w \in {MacNext(M)} :
                 w.output = RefHMAC(w.tab, hmac.key, M)
        /\ FinishAfterReinit =>
            /\ output' = RefHMAC(tab', hmac.key, gh.streamed)
            /\ IsDigest(tab', output')
      ]_vars

\* reinit was called in mid-stream, after one finish_to_key
C13_Witness ==
    /\ gh.lastOp = "reinit"
    /\ gh.rmid
    /\ gh.gen = 1
    /\ hmac.sha = Started

\* The first finish_to_key of the session was called in streaming phase on
\* a key given to init with at most D or with more than B bytes.
CollapsedNarrowKey ==
    /\ gh.lastOp = "finish_to_key"
    /\ gh.gen = 1
    /\ gh.kclean
    /\ \/ Len(gh.gkey) <= SB_SHA256_SIZE
       \/ Len(gh.gkey) > SB_SHA256_BLOCK_SIZE

\* C14: for a key of at most D bytes (the empty key included) and for a key
\* of more than B bytes, finish_to_key meets a zero upper half and leaves
\* in the first D bytes of the buffer the MAC that init; update; finish
\* write to the output for that key and the message streamed, which is the
\* reference HMAC, and zeros in the last D bytes.
C14_CollapseAnyNarrowKey ==
    CollapsedNarrowKey =>
        /\ gh.valid
        /\ \A w \in {sb_hmac_sha256(W, gh.gkey, Len(gh.gkey),
                                    gh.kmsg, Len(gh.kmsg))} :
              SubSeq(hmac.key, 1, SB_SHA256_SIZE) = w.output
        /\ SubSeq(hmac.key, 1, SB_SHA256_SIZE)
              = RefHMAC(tab, RefK0(tab, gh.gkey), gh.kmsg)
        /\ IsDigest(tab, SubSeq(hmac.key, 1, SB_SHA256_SIZE))
        /\ UpperZero(hmac.key)

C14_Witness ==
    /\ CollapsedNarrowKey
    /\ Len(gh.gkey) > SB_SHA256_BLOCK_SIZE
    /\ Len(gh.kmsg) > 0

\* Caller c's call has returned.
Returned(c) == race.on /\ race.pc[c] = OpSteps(race.op[c])

\* The object and the output buffer that caller c's call leaves when
\* nothing runs between its statements, on the object as it was before
\* either caller started.
Alone(c) ==
    OpCall(race.op[c],
           [hmac |-> race.start[c], output |-> Rep(0, SB_SHA256_SIZE),
            tab |-> tab, oob |-> FALSE])

\* The first caller's MAC when the two calls on the one object run one
\* after the other, in either order.
SequentialMacs ==
    LET w0 == [hmac |-> race.start[1], output |-> Rep(0, SB_SHA256_SIZE),
               tab |-> tab, oob |-> FALSE]
        w1 == OpCall(race.op[2], w0)
        w2 == [w1 EXCEPT !.output = Rep(0, SB_SHA256_SIZE)]
    IN  { sb_hmac_sha256_finish(w0).output, sb_hmac_sha256_finish(w2).output }

\* C15: two callers whose calls (finish, and finish or finish_to_key) run
\* with their statements interleaved on objects of their own each get what
\* their call gives alone: the same object, the same MAC, which for finish
\* is the HMAC of the object's key and message.  On one shared object an
\* interleaving exists that returns a MAC which no sequential order of the
\* two calls returns (C15_Witness).
C15_DistinctObjectsIsolated ==
    (race.on /\ ~race.shared) =>
        /\ Returned(1) =>
             \A w \in {Alone(1)} :
                /\ hmac = w.hmac
                /\ output = w.output
                /\ output = RefHMAC(tab, ZeroExtend(race.key[1]), race.msg[1])
        /\ Returned(2) =>
             \A w \in {Alone(2)} :
                /\ race.hmac2 = w.hmac
                /\ race.out2 = w.output
                /\ race.op[2] = "finish" =>
                     race.out2 = RefHMAC(tab, ZeroExtend(race.key[2]),
                                         race.msg[2])
        /\ ~oob

\* A MAC that finish returns when the other caller's finish un-pads the
\* key and restarts the engine between its statements: the hash of the
\* plain key block, the digest of the outer-padded key block and the inner
\* digest.
RacedMac ==
    LET K0 == ZeroExtend(race.key[1])
    IN  RefHash(tab, K0 \o RefHash(tab, XorAll(K0, opad))
                        \o RefHash(tab, XorAll(K0, ipad) \o race.msg[1]))

\* Both calls of finish on the one object have returned, the key buffer
\* holds the key again, and the first caller got a MAC that is not the
\* HMAC and that neither sequential order gives.
C15_Witness ==
    /\ race.on
    /\ race.shared
    /\ race.op[2] = "finish"
    /\ Returned(1)
    /\ Returned(2)
    /\ hmac.key = race.start[1].key
    /\ output = RacedMac
    /\ IsDigest(tab, output)
    /\ output \notin SequentialMacs
    /\ output # RefHMAC(tab, ZeroExtend(race.key[1]), race.msg[1])

====
